---- MODULE Spec2Model ----
(***************************************************************************)
(* State-machine model of the NodeNav Bluetooth GPS connectors:            *)
(*   gps-connector-improved.py    (socket transport, retries, streaming)   *)
(*   alternative-gps-connector.py (rfcomm device-file transport)           *)
(***************************************************************************)
EXTENDS Integers, Sequences, FiniteSets, TLC

(***************************************************************************)
(* Bounds of the model.                                                    *)
(***************************************************************************)
\* number of complete lines the peer sends in one stream
MaxLines == 2
\* number of transport/OS faults (errors other than a plain refusal) per run
MaxFaults == 1

(***************************************************************************)
(* Program constants.                                                      *)
(***************************************************************************)
\* gps-connector-improved.py:188   "> 30"
StaleLimit == 30
\* gps-connector-improved.py:193   sock.settimeout(1.0)
ReadTimeout == 1
\* gps-connector-improved.py:197   sock.recv(1024)
RecvSize == 1024
\* gps-connector-improved.py:103   max_retries=3
DefaultRetries == 3
\* gps-connector-improved.py:78    return 1
DefaultChannel == 1
\* gps-connector-improved.py:249   common_ports
common_ports == <<17, 1, 2, 3, 4, 5>>

(***************************************************************************)
(* Bytes and text.  A byte is a one-character string; "C3" and "A9" are    *)
(* the two bytes of the UTF-8 encoding of U+00E9, "E9" is that character   *)
(* once decoded.  In JSON texts "L" abbreviates the member pair            *)
(* "latitude":40.0,"longitude":-105.0 and "t" the member "timestamp":5.    *)
(***************************************************************************)
NL == "\n"
LeadByte == "C3"
ContByte == "A9"
Whitespace == {" "}

Range(s) == {s[i] : i \in 1..Len(s)}

RECURSIVE decode_ignore(_)
\* bytes.decode('utf-8', errors='ignore'): an incomplete or stray part of a
\* multi-byte sequence is dropped, everything else is kept.
decode_ignore(b) ==
  IF b = <<>> THEN <<>>
  ELSE IF Head(b) = LeadByte
       THEN IF Len(b) >= 2 /\ b[2] = ContByte
            THEN <<"E9">> \o decode_ignore(Tail(Tail(b)))
            ELSE decode_ignore(Tail(b))
       ELSE IF Head(b) = ContByte
            THEN decode_ignore(Tail(b))
            ELSE <<Head(b)>> \o decode_ignore(Tail(b))

RECURSIVE lstrip(_)
lstrip(s) == IF s /= <<>> /\ Head(s) \in Whitespace THEN lstrip(Tail(s)) ELSE s

RECURSIVE rstrip(_)
rstrip(s) ==
  IF s /= <<>> /\ s[Len(s)] \in Whitespace THEN rstrip(SubSeq(s, 1, Len(s) - 1)) ELSE s

\* str.strip()
strip(s) == rstrip(lstrip(s))

\* index of the first newline of s (s holds one)
FirstNL(s) == CHOOSE i \in 1..Len(s) : s[i] = NL /\ \A j \in 1..(i - 1) : s[j] /= NL

\* buffer.split('\n', 1)
split_line(s) == SubSeq(s, 1, FirstNL(s) - 1)
split_rest(s) == SubSeq(s, FirstNL(s) + 1, Len(s))

\* json.loads on a stripped, non-empty line.
\*   object : "{" members "}"  with members among L, t and blanks
\*   number : one or more digits 7  (valid JSON, not an object)
\*   anything else raises JSONDecodeError
json_loads(s) ==
  IF Len(s) >= 2 /\ s[1] = "{" /\ s[Len(s)] = "}"
     /\ \A i \in 2..(Len(s) - 1) : s[i] \in {"L", "t", " "}
  THEN [kind |-> "object", keys |-> {s[i] : i \in 2..(Len(s) - 1)} \ {" "}]
  ELSE IF s /= <<>> /\ \A i \in 1..Len(s) : s[i] = "7"
       THEN [kind |-> "number", keys |-> {}]
       ELSE [kind |-> "invalid", keys |-> {}]

(***************************************************************************)
(* What the peer may send: complete lines followed by an optional partial  *)
(* line.                                                                   *)
(***************************************************************************)
TelemetryLine == <<"{", "L", "}">>
StampedLine == <<"{", "L", "t", "}">>
NonTelemetryLine == <<"{", "}">>
MalformedLine == <<"x">>
BlankLine == <<" ">>
NumberLine == <<"7">>
AccentLine == <<LeadByte, ContByte>>

LinePool ==
  {TelemetryLine, StampedLine, NonTelemetryLine, MalformedLine, BlankLine,
   NumberLine, AccentLine}
TailPool == {<<>>, <<"{", "L">>, TelemetryLine}

RECURSIVE LinesUpTo(_)
\* every concatenation of at most n newline-terminated lines of the pool
LinesUpTo(n) ==
  IF n = 0 THEN {<<>>}
  ELSE LET shorter == LinesUpTo(n - 1)
       IN shorter \cup {w \o l \o <<NL>> : w \in shorter, l \in LinePool}

Wires == {w \o t : w \in LinesUpTo(MaxLines), t \in TailPool}

\* the streams of the end-to-end scenarios
ScenarioWires ==
  {<<>>, TelemetryLine \o <<NL>>, MalformedLine \o <<NL>> \o StampedLine \o <<NL>>}

(***************************************************************************)
(* The address argument, sys.argv[1].                                      *)
(***************************************************************************)
\* the characters of "0123456789ABCDEFabcdef:"
HexColon ==
  {"0", "1", "2", "3", "4", "5", "6", "7", "8", "9", "A", "B", "C", "D", "E", "F",
   "a", "b", "c", "d", "e", "f", ":"}

\* all(c in "0123456789ABCDEFabcdef:" for c in address)
valid_address(a) == \A i \in 1..Len(a) : a[i] \in HexColon

ValidAddress == <<"6", "4", ":", "9", "D", ":", "1", "e">>
InvalidAddress == <<"6", "4", ":", "Z", "Z", ":", "1", "e">>
Addresses == {ValidAddress, InvalidAddress}

(***************************************************************************)
(* State of the connectors.                                                *)
(***************************************************************************)
VARIABLES
  pc,           \* position of the process in main / connect_with_retry / stream_gps_data
  sock,         \* the global socket: "None", "created" or "connected"
  openHandles,  \* transport handles created and not yet closed
  mainChannel,  \* main: channel returned by find_best_channel(address, quick=False)
  portIdx,      \* main: index of the port of common_ports being tried (0: not in the sweep)
  channel,      \* connect_with_retry: channel of the next attempt
  attempt,      \* connect_with_retry: index of the current attempt
  max_retries,  \* connect_with_retry: argument
  lastErr,      \* class of the exception of the last failed attempt ("none" before)
  tried,        \* channels of the connection attempts made so far, in order
  recovery,     \* recovery actions run since the last connection attempt
  waits,        \* seconds slept (time.sleep) since the last connection attempt, in order
  ret,          \* connect_with_retry: "running" during the call, then what it returned
  attemptsMade, \* connection attempts made by the current call of connect_with_retry
  buffer,       \* stream_gps_data: text received and not yet split into lines
  idle,         \* stream_gps_data: time.time() - last_data_time, in seconds
  yielded,      \* lines split off the buffer so far, in order
  stdout,       \* records printed on stdout, in order
  stderr,       \* diagnostic tags printed on stderr, in order
  exitCode,     \* exit status of the process (-1 while it runs)
  wire,         \* peer: the bytes it sends on an accepted connection
  sent,         \* peer: how many bytes of wire have been received
  listening,    \* peer: the channels on which it accepts a connection
  faults,       \* transport/OS faults injected so far
  running,      \* alternative connector: self.running
  address,      \* sys.argv[1], a sequence of characters
  discovery,    \* find_best_channel: what bluetooth.find_service answers (until it returns)
  signals,      \* SIGINT/SIGTERM delivered to the process so far
  rfcomm_device,\* alternative connector: number n of self.rfcomm_device "/dev/rfcomm<n>" (-1: None)
  devices,      \* system: the slots n whose /dev/rfcomm<n> exists
  held,         \* system: slot rfcomm_device is bound by a bind of this process
  binds,        \* successful binds of this process so far
  releaseLog    \* outcome of every rfcomm release issued by this process, in order

vars ==
  <<pc, sock, openHandles, mainChannel, portIdx, channel, attempt, max_retries,
    lastErr, tried, recovery, waits, ret, attemptsMade, buffer, idle, yielded, stdout, stderr, exitCode, wire, sent,
    listening, faults, running, address, discovery, signals, rfcomm_device, devices,
    held, binds, releaseLog>>

connVars ==
  <<mainChannel, portIdx, channel, attempt, max_retries, lastErr, tried, recovery, waits,
    ret, attemptsMade>>
streamVars == <<buffer, idle, yielded, stdout, sent>>
peerVars == <<wire, listening>>
binderVars == <<running, rfcomm_device, devices, held, binds, releaseLog>>
restVars == <<peerVars, binderVars, address, discovery, signals>>

Min(a, b) == IF a < b THEN a ELSE b

(***************************************************************************)
(* cleanup_socket(): close the global socket if there is one.              *)
(***************************************************************************)
\* cleanup_socket that drops the socket without closing it
cleanup_handles_leak(s, h) == h

\* handles left open once cleanup_socket has run on socket s
cleanup_handles(s, h) == IF s /= "None" THEN h - 1 ELSE h
cleanup_log(s, err) == IF s /= "None" THEN Append(err, "SOCKET_CLOSED") ELSE err

(***************************************************************************)
(* find_best_channel.  A service descriptor is [port, name]; port 0 and    *)
(* name "" stand for a missing (None) entry.                               *)
(***************************************************************************)
\* str.lower() on the service names of the model
name_lower(name) ==
  CASE name = "NodeNav GPS" -> "nodenav gps"
    [] name = "Serial Port" -> "serial port"
    [] name = "OBEX Push" -> "obex push"
    [] OTHER -> name

\* any(x in name_lower for x in ['spp', 'serial', 'gps', 'location', 'nodenav'])
has_keyword(lowered) == lowered \in {"nodenav gps", "serial port"}

RECURSIVE first_service_port(_)
\* the loop over the discovered services: port of the first named service with
\* a port and a keyword in its name, else the default channel
first_service_port(services) ==
  IF services = <<>> THEN DefaultChannel
  ELSE LET svc == Head(services)
       IN IF svc.name /= "" /\ svc.port /= 0 /\ has_keyword(name_lower(svc.name))
          THEN svc.port
          ELSE first_service_port(Tail(services))

\* find_best_channel without a channel when the scan raises
find_best_channel_no_fallback(services, quick, raises) ==
  IF quick THEN DefaultChannel
  ELSE IF raises THEN 0 ELSE first_service_port(services)

\* raises: bluetooth.find_service raises instead of returning services
find_best_channel(services, quick, raises) ==
  IF quick \/ raises THEN DefaultChannel ELSE first_service_port(services)

find_best_channel_log(services, quick, raises) ==
  IF quick THEN <<>>
  ELSE IF raises THEN <<"SCANNING_SERVICES", "SERVICE_SCAN_ERROR">>
       ELSE IF \E i \in 1..Len(services) :
                 /\ services[i].name /= "" /\ services[i].port /= 0
                 /\ has_keyword(name_lower(services[i].name))
            THEN <<"SCANNING_SERVICES", "FOUND_SERVICE">>
            ELSE <<"SCANNING_SERVICES">>

\* what service discovery may answer
ServiceLists ==
  {<<>>,
   <<[port |-> 2, name |-> "NodeNav GPS", protocol |-> "RFCOMM"],
     [port |-> 4, name |-> "Serial Port", protocol |-> "RFCOMM"]>>,
   <<[port |-> 3, name |-> "OBEX Push", protocol |-> "L2CAP"],
     [port |-> 2, name |-> "Serial Port", protocol |-> "RFCOMM"]>>,
   <<[port |-> 0, name |-> "Serial Port", protocol |-> "RFCOMM"],
     [port |-> 3, name |-> "", protocol |-> "L2CAP"]>>}

(***************************************************************************)
(* The channel lists of the diagnostic scripts.                            *)
(***************************************************************************)
\* [1, 2, 3, 4, 5] of test-gps-connection.py and debug-bluetooth-linux.py
default_channels == <<1, 2, 3, 4, 5>>

RECURSIVE find_device_services(_, _)
\* test-gps-connection.py: the port of the last named service with a keyword in
\* its name (0: None); spp is the value of spp_channel so far
find_device_services(services, spp) ==
  IF services = <<>> THEN spp
  ELSE LET svc == Head(services)
       IN find_device_services(
            Tail(services),
            IF svc.name /= "" /\ has_keyword(name_lower(svc.name)) THEN svc.port ELSE spp)

\* test-gps-connection.py main: the suggested port, else the common ports
ports_to_test(d) ==
  LET suggested_port == IF d.raises THEN 0 ELSE find_device_services(d.services, 0)
  IN IF suggested_port /= 0 THEN <<suggested_port>> ELSE default_channels

RECURSIVE rfcomm_ports(_, _)
\* debug-bluetooth-linux.py main: the ports of the RFCOMM services, once each
rfcomm_ports(services, acc) ==
  IF services = <<>> THEN acc
  ELSE LET svc == Head(services)
       IN rfcomm_ports(
            Tail(services),
            IF svc.protocol = "RFCOMM" /\ svc.port /= 0 /\ svc.port \notin Range(acc)
            THEN Append(acc, svc.port) ELSE acc)

\* debug-bluetooth-linux.py main: channels_to_test (test_service_discovery
\* answers nothing when the discovery raises)
channels_to_test(d) ==
  LET found == IF d.raises THEN <<>> ELSE rfcomm_ports(d.services, <<>>)
  IN IF found = <<>> THEN default_channels ELSE found

RECURSIVE service_ports(_)
\* test-android-gps-client.py: the ports test_insecure_connection tests while it
\* lists the discovered services, one per service with a port
service_ports(services) ==
  IF services = <<>> THEN <<>>
  ELSE (IF Head(services).port /= 0 THEN <<Head(services).port>> ELSE <<>>)
         \o service_ports(Tail(services))

\* test-android-gps-client.py test_insecure_connection: the channels tested
\* when none of them accepts: those of the discovered services, then the
\* standard channels "regardless"
test_insecure_channels(d) ==
  (IF d.raises THEN <<>> ELSE service_ports(d.services)) \o default_channels

\* what bluetooth.find_service may do when it returns: answer a list, or raise
Discoveries == [services : ServiceLists, raises : BOOLEAN, hangs : {FALSE}]
\* find_best_channel has returned: its locals are gone
NoDiscovery == [services |-> <<>>, raises |-> FALSE, hangs |-> FALSE]
\* bluetooth.find_service(address=address) blocks and never returns
HangingDiscovery == [services |-> <<>>, raises |-> FALSE, hangs |-> TRUE]

PeerChannels == {1, 2, 17}

(***************************************************************************)
(* main: resolve the channel and call connect_with_retry(address, channel) *)
(***************************************************************************)
Resolve ==
  /\ pc = "main"
  /\ ~discovery.hangs
  /\ mainChannel' = find_best_channel(discovery.services, FALSE, discovery.raises)
  /\ stderr' = stderr \o find_best_channel_log(discovery.services, FALSE, discovery.raises)
  /\ channel' = find_best_channel(discovery.services, FALSE, discovery.raises)
  /\ discovery' = NoDiscovery
  /\ attempt' = 0
  /\ max_retries' = DefaultRetries
  /\ ret' = "running"
  /\ attemptsMade' = 0
  /\ pc' = "attempt"
  /\ UNCHANGED <<sock, openHandles, portIdx, lastErr, tried, recovery, waits,
                 streamVars, exitCode, peerVars, binderVars, address, signals, faults>>

(***************************************************************************)
(* connect_with_retry                                                      *)
(***************************************************************************)
\* head of one attempt: cleanup_socket, a fresh socket, the connect timeout
AttemptOpen ==
  /\ pc = "attempt"
  /\ openHandles' = cleanup_handles(sock, openHandles) + 1
  /\ sock' = "created"
  /\ stderr' = Append(cleanup_log(sock, stderr), "CONNECT_ATTEMPT")
  /\ tried' = Append(tried, channel)
  /\ recovery' = {}
  /\ waits' = <<>>
  /\ attemptsMade' = attemptsMade + 1
  /\ pc' = "connecting"
  /\ UNCHANGED <<mainChannel, portIdx, channel, attempt, max_retries, lastErr, ret,
                 streamVars, exitCode, restVars, faults>>

\* sock.connect succeeds: return True, and both callers go on to stream_gps_data
ConnectOK ==
  /\ pc = "connecting"
  /\ valid_address(address)
  /\ channel \in listening
  /\ sock' = "connected"
  /\ stderr' = Append(stderr, "CONNECTED")
  /\ ret' = "True"
  /\ pc' = "stream_enter"
  /\ UNCHANGED <<openHandles, mainChannel, portIdx, channel, attempt, max_retries,
                 lastErr, tried, recovery, waits, attemptsMade, streamVars, exitCode,
                 restVars, faults>>

\* the error classes the handler of BluetoothError tells apart
\*   badfd    [Errno 77] / "File descriptor"
\*   hostdown [Errno 112] / "Host is down"
\*   refused  [Errno 111] / "Connection refused"
\*   other    any other BluetoothError (a connect timeout among them)
FaultClasses == {"badfd", "hostdown", "other"}

\* sock.connect raises BluetoothError of class e.  An address that is no
\* Bluetooth address reaches no peer: connect raises an error of class other.
ConnectFail(e) ==
  /\ pc = "connecting"
  /\ \/ e = "refused" /\ valid_address(address) /\ channel \notin listening
        /\ faults' = faults
     \/ e = "other" /\ ~valid_address(address) /\ faults' = faults
     \/ e \in FaultClasses /\ faults < MaxFaults /\ faults' = faults + 1
  /\ stderr' = Append(stderr, "CONNECT_ERROR")
  /\ lastErr' = e
  /\ pc' = "recover"
  /\ UNCHANGED <<sock, openHandles, mainChannel, portIdx, channel, attempt,
                 max_retries, tried, recovery, waits, ret, attemptsMade, streamVars,
                 exitCode, restVars>>

\* the channel of the next attempt after an error of class e at this attempt
next_channel(e, att, ch) ==
  IF e = "refused" /\ att = 0 /\ ch = 1 /\ find_best_channel(<<>>, TRUE, FALSE) /= ch
  THEN find_best_channel(<<>>, TRUE, FALSE)
  ELSE ch

\* a handler that closes the bad socket after the first attempt only
bad_state_socket_first_only(att, s) == IF att = 0 THEN "None" ELSE s

\* the global socket after the "[Errno 77]" branch at attempt att: cleanup_socket()
\* comes before the tests on the attempt index
bad_state_socket(att, s) == "None"

\* the recovery branch of the handler.  bound: rfcomm -a lists the address;
\* resetOK: the bluetoothctl calls of reset_bluetooth_for_device do not raise.
Recover(bound, resetOK) ==
  /\ pc = "recover"
  /\ LET resetLog == IF resetOK THEN "BLUETOOTH_RESET" ELSE "RESET_ERROR"
         resetWaits == IF resetOK THEN <<1, 2>> ELSE <<>>
     IN CASE lastErr = "badfd" ->
               /\ sock' = bad_state_socket(attempt, sock)
               /\ openHandles' = IF bad_state_socket(attempt, sock) = "None"
                                 THEN cleanup_handles(sock, openHandles)
                                 ELSE openHandles
               /\ channel' = channel
               /\ IF attempt = 0
                  THEN /\ recovery' = IF bound THEN {"cleanup", "release"} ELSE {"cleanup"}
                       /\ stderr' = IF bound
                                    THEN Append(cleanup_log(sock, stderr), "RELEASING_EXISTING")
                                    ELSE cleanup_log(sock, stderr)
                       /\ waits' = IF bound THEN <<1>> ELSE <<>>
                  ELSE IF attempt = 1
                       THEN /\ recovery' = {"cleanup", "reset"}
                            /\ stderr' = Append(cleanup_log(sock, stderr), resetLog)
                            /\ waits' = resetWaits \o <<2>>
                       ELSE /\ recovery' = {"cleanup"}
                            /\ stderr' = cleanup_log(sock, stderr)
                            /\ waits' = <<>>
          [] lastErr = "hostdown" ->
               /\ recovery' = {"reset"}
               /\ stderr' = Append(stderr, resetLog)
               /\ waits' = resetWaits
               /\ UNCHANGED <<sock, openHandles, channel>>
          [] lastErr = "refused" ->
               /\ channel' = next_channel(lastErr, attempt, channel)
               /\ recovery' = IF attempt = 0 /\ channel = 1 THEN {"rechannel"} ELSE {}
               /\ stderr' = IF channel' /= channel
                            THEN Append(stderr, "TRYING_CHANNEL") ELSE stderr
               /\ waits' = <<>>
               /\ UNCHANGED <<sock, openHandles>>
          [] OTHER ->
               /\ recovery' = {}
               /\ waits' = <<>>
               /\ UNCHANGED <<sock, openHandles, channel, stderr>>
  /\ pc' = "backoff"
  /\ UNCHANGED <<mainChannel, portIdx, attempt, max_retries, lastErr, tried, ret,
                 attemptsMade, streamVars, exitCode, restVars, faults>>

\* the for loop running one iteration too many
after_attempt_extra(att, retries, idx) ==
  IF att + 1 <= retries THEN "attempt"
  ELSE IF idx = 0 THEN "sweep_start" ELSE "sweep_sleep"

\* where connect_with_retry goes after attempt att failed: the next attempt, or
\* return False to main (first call: the port sweep; sweep call: its sleep)
after_attempt(att, retries, idx) ==
  IF att + 1 < retries THEN "attempt"
  ELSE IF idx = 0 THEN "sweep_start" ELSE "sweep_sleep"

\* what the call has returned when control is at position p after a failed attempt
after_return(p) == IF p = "attempt" THEN "running" ELSE "False"

\* a wait that does not grow with the attempt
wait_time_flat(att) == 2

\* wait_time = (attempt + 1) * 2
wait_time(att) == (att + 1) * 2

\* "Wait before retry", then the next iteration of the for loop
Backoff ==
  /\ pc = "backoff"
  /\ IF attempt < max_retries - 1
     THEN /\ stderr' = Append(stderr, "RETRY_WAIT")
          /\ waits' = Append(waits, wait_time(attempt))
     ELSE UNCHANGED <<stderr, waits>>
  /\ attempt' = attempt + 1
  /\ pc' = after_attempt(attempt, max_retries, portIdx)
  /\ ret' = after_return(after_attempt(attempt, max_retries, portIdx))
  /\ UNCHANGED <<sock, openHandles, mainChannel, portIdx, channel, max_retries,
                 lastErr, tried, recovery, attemptsMade, streamVars, exitCode,
                 restVars, faults>>

\* sock.connect raises something that is no BluetoothError
ConnectUnexpected ==
  /\ pc = "connecting"
  /\ faults < MaxFaults
  /\ faults' = faults + 1
  /\ lastErr' = "unexpected"
  /\ stderr' = cleanup_log(sock, Append(stderr, "UNEXPECTED_ERROR"))
  /\ openHandles' = cleanup_handles(sock, openHandles)
  /\ sock' = "None"
  /\ recovery' = {"cleanup"}
  /\ waits' = <<2>>
  /\ attempt' = attempt + 1
  /\ pc' = after_attempt(attempt, max_retries, portIdx)
  /\ ret' = after_return(after_attempt(attempt, max_retries, portIdx))
  /\ UNCHANGED <<mainChannel, portIdx, channel, max_retries, tried, attemptsMade,
                 streamVars, exitCode, restVars>>

(***************************************************************************)
(* main: the sweep over common_ports after connect_with_retry failed       *)
(***************************************************************************)
\* main giving up without a word
connection_failed_silent(err) == err

\* main after the last port: print("CONNECTION_FAILED:...", file=sys.stderr)
connection_failed(err) == Append(err, "CONNECTION_FAILED")

\* a sweep that skips no port
already_tried_never(port, ch) == FALSE

\* "if port == channel: continue  # Already tried"
already_tried(port, ch) == port = ch

SweepStart ==
  /\ pc = "sweep_start"
  /\ stderr' = Append(stderr, "TRYING_COMMON_PORTS")
  /\ portIdx' = 1
  /\ pc' = "sweep"
  /\ UNCHANGED <<sock, openHandles, mainChannel, channel, attempt, max_retries,
                 lastErr, tried, recovery, waits, ret, attemptsMade, streamVars,
                 exitCode, restVars, faults>>

\* one iteration of "for port in common_ports", up to the call of
\* connect_with_retry(address, port, max_retries=1); after the last port
\* CONNECTION_FAILED and sys.exit(1)
SweepPort ==
  /\ pc = "sweep"
  /\ IF portIdx > Len(common_ports)
     THEN /\ stderr' = connection_failed(stderr)
          /\ exitCode' = 1
          /\ pc' = "finally"
          /\ UNCHANGED <<sock, openHandles, portIdx, channel, attempt, max_retries,
                         ret, attemptsMade>>
     ELSE IF already_tried(common_ports[portIdx], mainChannel)
          THEN /\ portIdx' = portIdx + 1
               /\ pc' = "sweep"
               /\ UNCHANGED <<sock, openHandles, channel, attempt, max_retries,
                              ret, attemptsMade, stderr, exitCode>>
          ELSE /\ stderr' = cleanup_log(sock, Append(stderr, "TRYING_PORT"))
               /\ openHandles' = cleanup_handles(sock, openHandles)
               /\ sock' = "None"
               /\ channel' = common_ports[portIdx]
               /\ attempt' = 0
               /\ max_retries' = 1
               /\ ret' = "running"
               /\ attemptsMade' = 0
               /\ pc' = "attempt"
               /\ UNCHANGED <<portIdx, exitCode>>
  /\ UNCHANGED <<mainChannel, lastErr, tried, recovery, waits, streamVars,
                 restVars, faults>>

\* time.sleep(1) after a failed port, then the next port
SweepSleep ==
  /\ pc = "sweep_sleep"
  /\ waits' = Append(waits, 1)
  /\ portIdx' = portIdx + 1
  /\ pc' = "sweep"
  /\ UNCHANGED <<sock, openHandles, mainChannel, channel, attempt, max_retries,
                 lastErr, tried, recovery, ret, attemptsMade, streamVars, stderr,
                 exitCode, restVars, faults>>

(***************************************************************************)
(* The inner loop of stream_gps_data: split complete lines off the buffer, *)
(* strip, parse and print each.  st is the state of the loop; st.raised    *)
(* is set when a statement raises something other than JSONDecodeError,    *)
(* which leaves the loop with the rest of the buffer unprocessed.          *)
(***************************************************************************)
\* a print(...) on stdout that writes at the front of what was printed before
print_stdout_front(out, rec) == <<rec>> \o out

\* print(..., flush=True) on stdout: one more line after those printed before
print_stdout(out, rec) == Append(out, rec)

\* the record json.dumps prints for a parsed object (timestamp added if missing)
emit_record(parsed, n) ==
  [kind |-> parsed.kind,
   keys |-> parsed.keys \cup {"t"},
   ts |-> IF "t" \in parsed.keys THEN "line" ELSE "clock",
   src |-> n]

RECURSIVE process_lines_fatal(_)
\* process_lines with the JSONDecodeError handler outside the while loop: a
\* malformed line is reported and ends the processing of the buffer
process_lines_fatal(st) ==
  IF NL \notin Range(st.buffer) THEN st
  ELSE LET line == split_line(st.buffer)
           rest == split_rest(st.buffer)
           text == strip(line)
           n == Len(st.yielded) + 1
           parsed == json_loads(text)
           next == [st EXCEPT !.buffer = rest, !.yielded = Append(@, line)]
       IN IF text = <<>> THEN process_lines_fatal(next)
          ELSE IF parsed.kind = "invalid"
               THEN [next EXCEPT !.stderr = Append(@, "PARSE_ERROR")]
               ELSE IF parsed.kind = "object"
                    THEN process_lines_fatal(
                           [next EXCEPT !.stdout = print_stdout(@, emit_record(parsed, n))])
                    ELSE [next EXCEPT !.raised = TRUE]

RECURSIVE process_lines_flush(_)
\* process_lines taking what follows the last newline for a line as soon as it
\* parses as an object
process_lines_flush(st) ==
  IF NL \notin Range(st.buffer)
  THEN IF json_loads(strip(st.buffer)).kind = "object"
       THEN [st EXCEPT !.buffer = <<>>,
                       !.stdout = print_stdout(@, emit_record(json_loads(strip(st.buffer)),
                                                             Len(st.yielded) + 1))]
       ELSE st
  ELSE LET line == split_line(st.buffer)
           rest == split_rest(st.buffer)
           text == strip(line)
           n == Len(st.yielded) + 1
           parsed == json_loads(text)
           next == [st EXCEPT !.buffer = rest, !.yielded = Append(@, line)]
       IN IF text = <<>> THEN process_lines_flush(next)
          ELSE IF parsed.kind = "invalid"
               THEN process_lines_flush([next EXCEPT !.stderr = Append(@, "PARSE_ERROR")])
               ELSE IF parsed.kind = "object"
                    THEN process_lines_flush(
                           [next EXCEPT !.stdout = print_stdout(@, emit_record(parsed, n))])
                    ELSE [next EXCEPT !.raised = TRUE]

RECURSIVE process_lines(_)
process_lines(st) ==
  IF NL \notin Range(st.buffer) THEN st
  ELSE LET line == split_line(st.buffer)
           rest == split_rest(st.buffer)
           text == strip(line)
           n == Len(st.yielded) + 1
           parsed == json_loads(text)
           next == [st EXCEPT !.buffer = rest, !.yielded = Append(@, line)]
       IN IF text = <<>> THEN process_lines(next)
          ELSE IF parsed.kind = "invalid"
               THEN process_lines([next EXCEPT !.stderr = Append(@, "PARSE_ERROR")])
               ELSE IF parsed.kind = "object"
                    THEN process_lines(
                           [next EXCEPT !.stdout = print_stdout(@, emit_record(parsed, n))])
                    \* 'timestamp' not in <number> raises TypeError
                    ELSE [next EXCEPT !.raised = TRUE]

(***************************************************************************)
(* stream_gps_data.  Its locals (buffer, last_data_time) end with the      *)
(* call: every way out of the loop drops them.                             *)
(***************************************************************************)
\* stream_gps_data on a port of the sweep without the "return" that follows it:
\* the loop over common_ports goes on
after_stream_next_port(idx) == IF idx = 0 THEN "finally" ELSE "sweep_sleep"

\* where main goes when stream_gps_data returns: the end of the if branch
\* (first call) or "return" (call of the sweep), both to the finally clause
after_stream(idx) == "finally"

\* entry of stream_gps_data: "if not sock: return", then the locals
StreamEnter ==
  /\ pc = "stream_enter"
  /\ IF sock = "None"
     THEN pc' = after_stream(portIdx) /\ UNCHANGED <<buffer, idle>>
     ELSE pc' = "streaming" /\ buffer' = <<>> /\ idle' = 0
  /\ UNCHANGED <<sock, openHandles, connVars, yielded, stdout, stderr, sent,
                 exitCode, restVars, faults>>

\* the staleness check at the head of the loop fires
StaleBreak ==
  /\ pc = "streaming"
  /\ idle > StaleLimit
  /\ stderr' = Append(stderr, "DATA_TIMEOUT")
  /\ pc' = after_stream(portIdx)
  /\ buffer' = <<>>
  /\ idle' = 0
  /\ UNCHANGED <<sock, openHandles, connVars, yielded, stdout, sent, exitCode,
                 restVars, faults>>

\* one iteration in which recv returns n bytes
RecvData(n) ==
  /\ pc = "streaming"
  /\ idle <= StaleLimit
  /\ n \in 1..Min(RecvSize, Len(wire) - sent)
  /\ \E data \in {decode_ignore(SubSeq(wire, sent + 1, sent + n))} :
       IF data = <<>>
       THEN /\ stderr' = Append(stderr, "CONNECTION_LOST")
            /\ pc' = after_stream(portIdx)
            /\ buffer' = <<>>
            /\ idle' = 0
            /\ UNCHANGED <<yielded, stdout>>
       ELSE \E st \in {process_lines([buffer |-> buffer \o data, yielded |-> yielded,
                                       stdout |-> stdout, stderr |-> stderr,
                                       raised |-> FALSE])} :
              /\ idle' = 0
              /\ buffer' = st.buffer
              /\ yielded' = st.yielded
              /\ stdout' = st.stdout
              /\ stderr' = IF st.raised THEN Append(st.stderr, "STREAM_ERROR")
                                        ELSE st.stderr
              /\ pc' = "streaming"
  /\ sent' = sent + n
  /\ UNCHANGED <<sock, openHandles, connVars, exitCode, restVars, faults>>

\* recv returns no bytes: the peer closed the connection
RecvEOF ==
  /\ pc = "streaming"
  /\ idle <= StaleLimit
  /\ stderr' = Append(stderr, "CONNECTION_LOST")
  /\ pc' = after_stream(portIdx)
  /\ buffer' = <<>>
  /\ idle' = 0
  /\ UNCHANGED <<sock, openHandles, connVars, yielded, stdout, sent, exitCode,
                 restVars, faults>>

\* recv raises BluetoothError "timed out" after the read timeout: continue
RecvTimeout ==
  /\ pc = "streaming"
  /\ idle <= StaleLimit
  /\ idle' = idle + ReadTimeout
  /\ UNCHANGED <<pc, sock, openHandles, connVars, buffer, yielded, stdout, sent,
                 stderr, exitCode, restVars, faults>>

\* recv raises another BluetoothError: re-raised, logged, break
RecvError ==
  /\ pc = "streaming"
  /\ idle <= StaleLimit
  /\ faults < MaxFaults
  /\ faults' = faults + 1
  /\ stderr' = Append(stderr, "BT_ERROR")
  /\ pc' = after_stream(portIdx)
  /\ buffer' = <<>>
  /\ idle' = 0
  /\ UNCHANGED <<sock, openHandles, connVars, yielded, stdout, sent, exitCode, restVars>>

(***************************************************************************)
(* Exit status of the interpreter: that of the pending sys.exit, else 0.   *)
(***************************************************************************)
exit_status(code) == IF code = -1 THEN 0 ELSE code

(***************************************************************************)
(* main: the finally clause, then the process exits.                       *)
(***************************************************************************)
Finally ==
  /\ pc = "finally"
  /\ openHandles' = cleanup_handles(sock, openHandles)
  /\ stderr' = Append(cleanup_log(sock, stderr), "DISCONNECTED")
  /\ sock' = "None"
  /\ exitCode' = exit_status(exitCode)
  /\ pc' = "exited"
  /\ UNCHANGED <<connVars, streamVars, restVars, faults>>

(***************************************************************************)
(* alternative-gps-connector.py: the rfcomm device slots.                  *)
(***************************************************************************)
\* range(10) of find_free_rfcomm
NumSlots == 10
\* the channels connect tries, in order
alt_channels == <<1, 2, 3, 4, 5>>

\* the first slot without a device file, and 0 when every slot has one
find_free_rfcomm(devs) ==
  IF \E i \in 0..(NumSlots - 1) : i \notin devs
  THEN CHOOSE i \in 0..(NumSlots - 1) :
         i \notin devs /\ \A j \in 0..(i - 1) : j \in devs
  ELSE 0

\* How a call of "sudo rfcomm release <n>" ends:
\*   run      the command runs to its end (whatever its return code)
\*   timeout  subprocess.run raises TimeoutExpired
\*   oserror  subprocess.run raises OSError (the command cannot be started)
ReleaseFaults == {"timeout", "oserror"}
ReleaseEnds == {"run"} \cup ReleaseFaults

\* what a release that ran found: the binding of this process, the binding of
\* another process, or no binding (the command then fails, unnoticed)
release_result(n, devs, mine) ==
  IF mine THEN "released" ELSE IF n \in devs THEN "stolen" ELSE "unbound"

release_outcome(r, n, devs, mine) == IF r = "run" THEN release_result(n, devs, mine) ELSE r
release_devices(r, n, devs) == IF r = "run" THEN devs \ {n} ELSE devs
\* a release that leaves the binding of this process in place
release_held_kept(r, mine) == mine

\* is the slot still bound by this process after the release
release_held(r, mine) == IF r = "run" THEN FALSE ELSE mine

(***************************************************************************)
(* alternative-gps-connector.py: main up to connector.connect()            *)
(***************************************************************************)
\* the address check of main; then the signal handlers and the connector
AltMain ==
  /\ pc = "alt_start"
  /\ IF valid_address(address)
     THEN pc' = "alt_connect" /\ UNCHANGED <<stderr, exitCode>>
     ELSE /\ stderr' = Append(stderr, "ERROR")
          /\ exitCode' = 1
          /\ pc' = "alt_exited"
  /\ UNCHANGED <<sock, openHandles, connVars, streamVars, restVars, faults>>

\* head of connect: the slot is chosen and stored, then the first channel
AltConnect ==
  /\ pc = "alt_connect"
  /\ rfcomm_device' = find_free_rfcomm(devices)
  /\ stderr' = Append(stderr, "CONNECTING")
  /\ channel' = alt_channels[1]
  /\ pc' = "alt_release"
  /\ UNCHANGED <<sock, openHandles, mainChannel, portIdx, attempt, max_retries,
                 lastErr, tried, recovery, waits, ret, attemptsMade, streamVars,
                 exitCode, peerVars, running, devices, held, binds, releaseLog,
                 address, discovery, signals, faults>>

\* one iteration of the channel loop up to the bind: "release any existing
\* binding" inside try / except: pass
AltRelease(r) ==
  /\ pc = "alt_release"
  /\ \/ r = "run" /\ faults' = faults
     \/ r \in ReleaseFaults /\ faults < MaxFaults /\ faults' = faults + 1
  /\ stderr' = Append(stderr, "TRYING_CHANNEL")
  /\ releaseLog' = Append(releaseLog, release_outcome(r, rfcomm_device, devices, held))
  /\ devices' = release_devices(r, rfcomm_device, devices)
  /\ held' = release_held(r, held)
  /\ pc' = "alt_bind"
  /\ UNCHANGED <<sock, openHandles, connVars, streamVars, exitCode, peerVars, running,
                 rfcomm_device, binds, address, discovery, signals>>

\* How "sudo rfcomm bind <n> <address> <channel>" ends:
\*   ok       return code 0 and the device file is there one second later
\*   nodev    return code 0 and no device file
\*   error    another return code, or subprocess.run raises an Exception
\*   timeout  subprocess.run raises TimeoutExpired
BindEnds == {"ok", "nodev", "error", "timeout"}

bind_log(b) ==
  CASE b = "ok" -> "CONNECTED"
    [] b = "nodev" -> "CHANNEL_FAILED"
    [] b = "error" -> "CHANNEL_ERROR"
    [] OTHER -> "CHANNEL_TIMEOUT"

\* connect taking the return code alone as success
bind_success_unchecked(b) == b \in {"ok", "nodev"}

\* "result.returncode == 0" and then "os.path.exists(self.rfcomm_device)"
bind_success(b) == b = "ok"

\* the bind of one iteration; connect returns True on ok (main then sets
\* running), goes to the next channel otherwise, and returns False after the
\* last one (main: CONNECTION_FAILED, sys.exit(1))
AltBind(b) ==
  /\ pc = "alt_bind"
  /\ \/ b = "ok" /\ rfcomm_device \notin devices /\ ~held /\ faults' = faults
     \/ b = "error" /\ faults' = faults
     \/ b = "nodev" /\ rfcomm_device \notin devices /\ ~held
        /\ faults < MaxFaults /\ faults' = faults + 1
     \/ b = "timeout" /\ faults < MaxFaults /\ faults' = faults + 1
  /\ held' = (held \/ b \in {"ok", "nodev"})
  /\ binds' = IF b \in {"ok", "nodev"} THEN binds + 1 ELSE binds
  /\ devices' = IF b = "ok" THEN devices \cup {rfcomm_device} ELSE devices
  /\ IF bind_success(b)
     THEN /\ stderr' = Append(stderr, bind_log(b))
          /\ running' = TRUE
          /\ pc' = "alt_stream_enter"
          /\ UNCHANGED <<channel, exitCode>>
     ELSE IF channel < alt_channels[Len(alt_channels)]
          THEN /\ stderr' = Append(stderr, bind_log(b))
               /\ channel' = channel + 1
               /\ pc' = "alt_release"
               /\ UNCHANGED <<running, exitCode>>
          ELSE /\ stderr' = stderr \o <<bind_log(b), "CONNECTION_FAILED">>
               /\ exitCode' = 1
               /\ pc' = "alt_cleanup"
               /\ UNCHANGED <<channel, running>>
  /\ UNCHANGED <<sock, openHandles, mainChannel, portIdx, attempt, max_retries,
                 lastErr, tried, recovery, waits, ret, attemptsMade, streamVars,
                 peerVars, rfcomm_device, releaseLog, address, discovery, signals>>

(***************************************************************************)
(* alternative-gps-connector.py: RfcommGPSConnector.stream_data.  The      *)
(* buffer holds bytes; each line is decoded on its own and printed as      *)
(* received.  The buffer is a local of the call and ends with it.          *)
(***************************************************************************)
\* what print(line_str) puts on stdout for a line that json.loads accepted
alt_emit_record(parsed, n) ==
  [kind |-> parsed.kind,
   keys |-> parsed.keys,
   ts |-> IF "t" \in parsed.keys THEN "line" ELSE "none",
   src |-> n]

RECURSIVE alt_process_lines_forward(_)
\* alt_process_lines printing the line before it is validated
alt_process_lines_forward(st) ==
  IF NL \notin Range(st.buffer) THEN st
  ELSE LET line == split_line(st.buffer)
           rest == split_rest(st.buffer)
           line_str == strip(decode_ignore(line))
           n == Len(st.yielded) + 1
           parsed == json_loads(line_str)
           next == [st EXCEPT !.buffer = rest, !.yielded = Append(@, line)]
           printed == [next EXCEPT !.stdout = print_stdout(@, alt_emit_record(parsed, n))]
       IN IF line_str = <<>> THEN alt_process_lines_forward(next)
          ELSE IF parsed.kind = "invalid"
               THEN alt_process_lines_forward(
                      [printed EXCEPT !.stderr = Append(@, "PARSE_ERROR")])
               ELSE alt_process_lines_forward(printed)

RECURSIVE alt_process_lines_blank(_)
\* alt_process_lines without "if line_str:": a blank line goes to json.loads
alt_process_lines_blank(st) ==
  IF NL \notin Range(st.buffer) THEN st
  ELSE LET line == split_line(st.buffer)
           rest == split_rest(st.buffer)
           line_str == strip(decode_ignore(line))
           n == Len(st.yielded) + 1
           parsed == json_loads(line_str)
           next == [st EXCEPT !.buffer = rest, !.yielded = Append(@, line)]
       IN IF parsed.kind = "invalid"
          THEN alt_process_lines_blank([next EXCEPT !.stderr = Append(@, "PARSE_ERROR")])
          ELSE alt_process_lines_blank(
                 [next EXCEPT !.stdout = print_stdout(@, alt_emit_record(parsed, n))])

RECURSIVE alt_process_lines(_)
alt_process_lines(st) ==
  IF NL \notin Range(st.buffer) THEN st
  ELSE LET line == split_line(st.buffer)
           rest == split_rest(st.buffer)
           line_str == strip(decode_ignore(line))
           n == Len(st.yielded) + 1
           parsed == json_loads(line_str)
           next == [st EXCEPT !.buffer = rest, !.yielded = Append(@, line)]
       IN IF line_str = <<>> THEN alt_process_lines(next)
          ELSE IF parsed.kind = "invalid"
               THEN alt_process_lines([next EXCEPT !.stderr = Append(@, "PARSE_ERROR")])
               ELSE alt_process_lines(
                      [next EXCEPT !.stdout = print_stdout(@, alt_emit_record(parsed, n))])

\* entry of stream_data: the device check, then open() and the empty buffer.
\* Opening the device file is what connects to the bound channel; opens: the
\* open succeeds.  When it raises, the outer handler logs FATAL_ERROR and
\* stream_data returns.
AltStreamEnter(opens) ==
  /\ pc = "alt_stream_enter"
  /\ IF rfcomm_device = -1 \/ rfcomm_device \notin devices
     THEN /\ opens
          /\ stderr' = Append(stderr, "ERROR")
          /\ pc' = "alt_cleanup"
          /\ UNCHANGED <<buffer, faults>>
     ELSE IF opens
          THEN /\ channel \in listening
               /\ stderr' = Append(stderr, "STREAMING")
               /\ buffer' = <<>>
               /\ pc' = "alt_streaming"
               /\ faults' = faults
          ELSE /\ \/ channel \notin listening /\ faults' = faults
                  \/ channel \in listening /\ faults < MaxFaults /\ faults' = faults + 1
               /\ stderr' = stderr \o <<"STREAMING", "FATAL_ERROR", "DISCONNECTED">>
               /\ buffer' = buffer
               /\ pc' = "alt_cleanup"
  /\ UNCHANGED <<sock, openHandles, connVars, idle, yielded, stdout, sent, exitCode,
                 restVars>>

\* one iteration in which device.read returns n bytes
AltReadData(n) ==
  /\ pc = "alt_streaming"
  /\ running
  /\ n \in 1..Min(RecvSize, Len(wire) - sent)
  /\ \E st \in {alt_process_lines(
                   [buffer |-> buffer \o SubSeq(wire, sent + 1, sent + n),
                    yielded |-> yielded, stdout |-> stdout, stderr |-> stderr])} :
       /\ buffer' = st.buffer
       /\ yielded' = st.yielded
       /\ stdout' = st.stdout
       /\ stderr' = st.stderr
  /\ sent' = sent + n
  /\ UNCHANGED <<pc, sock, openHandles, connVars, idle, exitCode, restVars, faults>>

\* device.read returns no bytes: CONNECTION_LOST, break, and the finally clause
AltReadEOF ==
  /\ pc = "alt_streaming"
  /\ running
  /\ stderr' = stderr \o <<"CONNECTION_LOST", "DISCONNECTED">>
  /\ pc' = "alt_cleanup"
  /\ buffer' = <<>>
  /\ UNCHANGED <<sock, openHandles, connVars, idle, yielded, stdout, sent, exitCode,
                 restVars, faults>>

\* device.read raises IOError with errno other than 11: IO_ERROR, break
AltReadError ==
  /\ pc = "alt_streaming"
  /\ running
  /\ faults < MaxFaults
  /\ faults' = faults + 1
  /\ stderr' = stderr \o <<"IO_ERROR", "DISCONNECTED">>
  /\ pc' = "alt_cleanup"
  /\ buffer' = <<>>
  /\ UNCHANGED <<sock, openHandles, connVars, idle, yielded, stdout, sent, exitCode,
                 restVars>>

\* an exception of the release escaping cleanup: the process would end with a
\* traceback and status 1
cleanup_status_raising(r, code) == IF r \in ReleaseFaults THEN 1 ELSE exit_status(code)

\* exit status after cleanup: whatever the release did (r) is swallowed by
\* "except: pass", so the status is that of the run
cleanup_status(r, code) == exit_status(code)

\* main's finally clause: connector.cleanup(), then the process exits.  The
\* release is issued whenever rfcomm_device is set; CLEANUP is printed when
\* subprocess.run returned.
AltCleanup(r) ==
  /\ pc = "alt_cleanup"
  /\ running' = FALSE
  /\ IF rfcomm_device = -1
     THEN /\ r = "run"
          /\ UNCHANGED <<stderr, releaseLog, devices, held, faults>>
     ELSE /\ \/ r = "run" /\ faults' = faults
             \/ r \in ReleaseFaults /\ faults < MaxFaults /\ faults' = faults + 1
          /\ stderr' = IF r = "run" THEN Append(stderr, "CLEANUP") ELSE stderr
          /\ releaseLog' = Append(releaseLog, release_outcome(r, rfcomm_device, devices, held))
          /\ devices' = release_devices(r, rfcomm_device, devices)
          /\ held' = release_held(r, held)
  /\ exitCode' = cleanup_status(r, exitCode)
  /\ pc' = "alt_exited"
  /\ UNCHANGED <<sock, openHandles, connVars, streamVars, peerVars, rfcomm_device,
                 binds, address, discovery, signals>>

AltStreamNext ==
  \/ \E opens \in BOOLEAN : AltStreamEnter(opens)
  \/ \E n \in 1..Len(wire) : AltReadData(n)
  \/ AltReadEOF
  \/ AltReadError
  \/ \E r \in ReleaseEnds : AltCleanup(r)

StreamNext ==
  \/ StreamEnter
  \/ StaleBreak
  \/ \E n \in 1..Len(wire) : RecvData(n)
  \/ RecvEOF
  \/ RecvTimeout
  \/ RecvError
  \/ Finally

\* stream_gps_data called on a connected socket; the peer sends any wire
\* Either streaming loop entered right after a successful connect: stream_gps_data
\* on a connected socket, or stream_data with connector.running set; the peer
\* sends any wire.
StreamInit ==
  /\ \/ /\ pc = "stream_enter" /\ running = FALSE /\ sock = "connected" /\ openHandles = 1
        /\ rfcomm_device = -1 /\ devices = {} /\ held = FALSE /\ binds = 0
        /\ releaseLog = <<>>
     \/ /\ pc = "alt_stream_enter" /\ running = TRUE /\ sock = "None" /\ openHandles = 0
        /\ rfcomm_device = 0 /\ devices = {0} /\ held = TRUE /\ binds = 1
        /\ releaseLog = <<"unbound">>
  /\ address = ValidAddress
  /\ discovery = NoDiscovery
  /\ signals = 0
  /\ mainChannel = DefaultChannel
  /\ portIdx = 0
  /\ channel = DefaultChannel
  /\ attempt = 0
  /\ max_retries = DefaultRetries
  /\ lastErr = "none"
  /\ tried = <<DefaultChannel>>
  /\ recovery = {}
  /\ waits = <<>>
  /\ ret = "True"
  /\ attemptsMade = 1
  /\ buffer = <<>>
  /\ idle = 0
  /\ yielded = <<>>
  /\ stdout = <<>>
  /\ stderr = <<"CONNECTED">>
  /\ exitCode = -1
  /\ wire \in Wires
  /\ sent = 0
  /\ listening = {DefaultChannel}
  /\ faults = 0

SpecStream == StreamInit /\ [][StreamNext \/ AltStreamNext]_vars

(***************************************************************************)
(* Properties of the streaming loops (checked under SpecStream).           *)
(***************************************************************************)
\* the bytes the transport has delivered so far
Received == SubSeq(wire, 1, sent)

RECURSIVE JoinLines(_)
\* the lines with their newlines reinserted
JoinLines(ls) == IF ls = <<>> THEN <<>> ELSE Head(ls) \o <<NL>> \o JoinLines(Tail(ls))

RECURSIVE CompleteLines(_)
\* the newline-terminated lines of a byte sequence, in order
CompleteLines(b) ==
  IF NL \notin Range(b) THEN <<>>
  ELSE <<split_line(b)>> \o CompleteLines(split_rest(b))

LineText(l) == strip(decode_ignore(l))
IsBlank(l) == LineText(l) = <<>>
IsMalformed(l) == ~IsBlank(l) /\ json_loads(LineText(l)).kind = "invalid"
IsObject(l) == ~IsBlank(l) /\ json_loads(LineText(l)).kind = "object"
IsTelemetry(l) == IsObject(l) /\ "L" \in json_loads(LineText(l)).keys
Emitted(n) == \E k \in 1..Len(stdout) : stdout[k].src = n
InStreamLoop == pc \in {"streaming", "alt_streaming"}

\* C1: under every chunking of the delivered bytes, the yielded lines with their
\* newlines reinserted, followed by the retained partial line, are exactly the
\* bytes delivered (as text, for the socket connector): nothing is lost,
\* duplicated, reordered or split.
C1_StreamBufferLossless ==
  /\ pc = "streaming" => JoinLines(yielded) \o buffer = decode_ignore(Received)
  /\ pc = "alt_streaming" => JoinLines(yielded) \o buffer = Received

\* C2: a line that is a JSON object without latitude/longitude is never printed
\* on stdout.
C2_NonTelemetryNeverEmitted ==
  \A n \in 1..Len(yielded) :
    (IsObject(yielded[n]) /\ ~IsTelemetry(yielded[n])) => ~Emitted(n)

\* C3: a line that is not valid JSON does not end the stream: every telemetry
\* line split off after it is emitted, and the loop does not stop at it with
\* complete lines left in the buffer.
C3_MalformedDoesNotEndStream ==
  \A i \in 1..Len(yielded) :
    IsMalformed(yielded[i]) =>
      /\ \A j \in (i + 1)..Len(yielded) : IsTelemetry(yielded[j]) => Emitted(j)
      /\ (i = Len(yielded) /\ InStreamLoop) => NL \notin Range(buffer)

\* a telemetry line was emitted after a malformed line was met
C3_Witness ==
  \E i \in 1..Len(yielded) : \E j \in (i + 1)..Len(yielded) :
    IsMalformed(yielded[i]) /\ IsTelemetry(yielded[j]) /\ Emitted(j) /\ InStreamLoop

\* C4: every record printed on stdout carries a timestamp (its own, or one
\* injected from the clock).
C4_EveryRecordHasTimestamp ==
  \A k \in 1..Len(stdout) :
    (stdout[k].kind = "object" /\ "L" \in stdout[k].keys) =>
      (stdout[k].ts /= "none" /\ "t" \in stdout[k].keys)

\* C5: records are printed in the order in which their lines ended in the byte
\* stream: the k-th record comes from line src of the bytes received, and src
\* grows along stdout.
C5_RecordsInLineOrder ==
  /\ \A k \in 1..Len(stdout) :
       /\ stdout[k].src \in 1..Len(CompleteLines(Received))
       /\ LET parsed == json_loads(LineText(CompleteLines(Received)[stdout[k].src]))
          IN parsed.kind = stdout[k].kind /\ parsed.keys \ {"t"} = stdout[k].keys \ {"t"}
  /\ \A k \in 1..Len(stdout) : \A m \in (k + 1)..Len(stdout) :
       stdout[k].src < stdout[m].src

\* two records of different lines were printed
C5_Witness ==
  /\ Len(stdout) = 2
  /\ stdout[1].src = 1
  /\ stdout[2].src = 2
  /\ stdout[1].keys /= stdout[2].keys

\* C6: the number of lines on stdout is the number of telemetry lines handled.
C6_OneLinePerTelemetryRecord ==
  Len(stdout) = Cardinality({n \in 1..Len(yielded) : IsTelemetry(yielded[n])})

(***************************************************************************)
(* The whole run of gps-connector-improved.py <address>.                   *)
(***************************************************************************)
Init ==
  /\ pc = "main"
  /\ sock = "None"
  /\ openHandles = 0
  /\ mainChannel = 0
  /\ portIdx = 0
  /\ channel = 0
  /\ attempt = 0
  /\ max_retries = 0
  /\ lastErr = "none"
  /\ tried = <<>>
  /\ recovery = {}
  /\ waits = <<>>
  /\ ret = "none"
  /\ attemptsMade = 0
  /\ buffer = <<>>
  /\ idle = 0
  /\ yielded = <<>>
  /\ stdout = <<>>
  /\ stderr = <<>>
  /\ exitCode = -1
  /\ wire \in ScenarioWires
  /\ sent = 0
  /\ listening \in SUBSET PeerChannels
  /\ faults = 0
  /\ running = FALSE
  /\ address = ValidAddress
  /\ discovery \in Discoveries
  /\ signals = 0
  /\ rfcomm_device = -1
  /\ devices = {}
  /\ held = FALSE
  /\ binds = 0
  /\ releaseLog = <<>>

Next ==
  \/ Resolve
  \/ AttemptOpen
  \/ ConnectOK
  \/ \E e \in FaultClasses \cup {"refused"} : ConnectFail(e)
  \/ \E bound \in BOOLEAN, resetOK \in BOOLEAN : Recover(bound, resetOK)
  \/ Backoff
  \/ ConnectUnexpected
  \/ SweepStart
  \/ SweepPort
  \/ SweepSleep
  \/ StreamNext

Spec == Init /\ [][Next]_vars

(***************************************************************************)
(* Properties of the whole run (checked under Spec).                       *)
(***************************************************************************)
InConnect == pc \in {"attempt", "connecting", "recover", "backoff"}

\* C7: after the staleness diagnostic the transport is closed and at least one
\* reconnection is attempted before the run ends.
C7_StalenessReconnects ==
  (pc = "exited" /\ "DATA_TIMEOUT" \in Range(stderr)) =>
    /\ sock = "None"
    /\ \E i \in 1..Len(stderr) : \E j \in (i + 1)..Len(stderr) :
         stderr[i] = "DATA_TIMEOUT" /\ stderr[j] = "CONNECT_ATTEMPT"

\* C8: when the peer refuses channel 1 and accepts channel 2, the second
\* connection attempt is on channel 2 and succeeds, within max_retries
\* attempts, and every telemetry line then received is emitted.
C8_ScenarioB ==
  (mainChannel = DefaultChannel /\ listening = {2} /\ faults = 0) =>
    /\ Len(tried) <= DefaultRetries
    /\ Len(tried) >= 2 => tried[2] = 2
    /\ \A n \in 1..Len(yielded) : IsTelemetry(yielded[n]) => Emitted(n)

\* C9: when attempt 0 on the default channel is refused and the peer accepts on
\* another candidate channel, attempt 1 uses a channel other than the default.
C9_RefusedTriesOtherChannel ==
  (pc = "attempt" /\ portIdx = 0 /\ attempt = 1 /\ lastErr = "refused"
     /\ tried = <<DefaultChannel>> /\ listening \ {DefaultChannel} /= {}) =>
    channel /= DefaultChannel

\* progress measure of one call of connect_with_retry
ConnectRank ==
  (max_retries - attempt) * 4
    + (CASE pc = "attempt" -> 3 [] pc = "connecting" -> 2 [] pc = "recover" -> 1
         [] OTHER -> 0)

\* C10 without its last clause: at most max_retries attempts, indexed from 0;
\* the call returns True right after the first successful attempt, with the
\* connected socket, or False after exactly max_retries failed attempts.
C10_AttemptsBounded ==
  /\ attemptsMade <= max_retries
  /\ pc \in {"connecting", "recover", "backoff"} => attemptsMade = attempt + 1
  /\ ret = "running" <=> InConnect
  /\ (ret = "True" /\ pc = "stream_enter") =>
       /\ sock = "connected"
       /\ attemptsMade = attempt + 1
       /\ tried[Len(tried)] \in listening
  /\ ret = "False" =>
       /\ attemptsMade = max_retries
       /\ attempt = max_retries
       /\ sock /= "connected"
       /\ lastErr /= "none"
       /\ \E i \in 1..Len(stderr) : stderr[i] \in {"CONNECT_ERROR", "UNEXPECTED_ERROR"}

\* the call never hangs and every step of it comes closer to its return
C10_EveryStepProgresses ==
  /\ InConnect => (ConnectRank >= 0 /\ ENABLED Next)
  /\ (InConnect /\ pc' /= pc) => (~InConnect' \/ ConnectRank' < ConnectRank)

Start ==
  /\ pc = "start"
  /\ pc' = "main"
  /\ UNCHANGED <<sock, openHandles, connVars, streamVars, stderr, exitCode, restVars,
                 faults>>

\* main: a statement outside connect_with_retry and stream_gps_data raises (the
\* print before the sweep): "except Exception" logs FATAL_ERROR, sys.exit(1)
MainFatal ==
  /\ pc = "sweep_start"
  /\ faults < MaxFaults
  /\ faults' = faults + 1
  /\ stderr' = Append(stderr, "FATAL_ERROR")
  /\ exitCode' = 1
  /\ pc' = "finally"
  /\ UNCHANGED <<sock, openHandles, connVars, streamVars, restVars>>

AltNext ==
  \/ AltMain
  \/ AltConnect
  \/ \E r \in ReleaseEnds : AltRelease(r)
  \/ \E b \in BindEnds : AltBind(b)
  \/ AltStreamNext

\* the environments of a whole run
RunWires == {<<>>, TelemetryLine \o <<NL>>}
RunListening == {{}, {DefaultChannel}, {17}}
OccupiedSets == {{}, {0}, 0..(NumSlots - 1)}

RunInit ==
  /\ \/ pc = "start" /\ discovery \in Discoveries /\ devices = {}
     \/ pc = "alt_start" /\ discovery = NoDiscovery /\ devices \in OccupiedSets
  /\ address \in Addresses
  \* no device answers the discovery for an address that is none
  /\ valid_address(address) \/ discovery.services = <<>>
  /\ sock = "None"
  /\ openHandles = 0
  /\ mainChannel = 0
  /\ portIdx = 0
  /\ channel = 0
  /\ attempt = 0
  /\ max_retries = 0
  /\ lastErr = "none"
  /\ tried = <<>>
  /\ recovery = {}
  /\ waits = <<>>
  /\ ret = "none"
  /\ attemptsMade = 0
  /\ buffer = <<>>
  /\ idle = 0
  /\ yielded = <<>>
  /\ stdout = <<>>
  /\ stderr = <<>>
  /\ exitCode = -1
  /\ wire \in RunWires
  /\ sent = 0
  /\ listening \in RunListening
  /\ faults = 0
  /\ running = FALSE
  /\ signals = 0
  /\ rfcomm_device = -1
  /\ held = FALSE
  /\ binds = 0
  /\ releaseLog = <<>>

RunNext == Start \/ Next \/ MainFatal \/ AltNext

SpecRuns == RunInit /\ [][RunNext]_vars

(***************************************************************************)
(* Signals.  Both programs install one handler for SIGINT and SIGTERM; it  *)
(* runs between two statements of the main flow and ends with sys.exit(0), *)
(* which raises SystemExit at the statement that was interrupted.  A bare  *)
(* "except:" around that statement swallows it.                            *)
(***************************************************************************)
\* signals delivered in one run
MaxSignals == 1

\* the main flow is inside "try: sock.close()" of cleanup_socket
in_cleanup_try(p, s, e, idx, mainCh) ==
  /\ s /= "None"
  /\ \/ p \in {"attempt", "finally"}
     \/ p = "recover" /\ e = "badfd"
     \/ p = "sweep" /\ idx <= Len(common_ports) /\ common_ports[idx] /= mainCh

\* gps-connector-improved.py: signal_handler runs cleanup_socket, then
\* sys.exit(0).  swallowed: SystemExit is raised inside cleanup_socket's try
\* and the main flow goes on; otherwise it reaches main's finally clause (or
\* ends the process, when raised outside main's try or inside the finally).
Signal(swallowed) ==
  /\ pc \in {"start", "main", "attempt", "connecting", "recover", "backoff",
            "sweep_start", "sweep", "sweep_sleep", "stream_enter", "streaming",
            "finally"}
  /\ signals < MaxSignals
  /\ signals' = signals + 1
  /\ swallowed => in_cleanup_try(pc, sock, lastErr, portIdx, mainChannel)
  /\ openHandles' = cleanup_handles(sock, openHandles)
  /\ stderr' = cleanup_log(sock, stderr)
  /\ sock' = "None"
  /\ IF swallowed
     THEN UNCHANGED <<pc, exitCode, buffer, idle>>
     ELSE /\ pc' = IF pc \in {"start", "finally"} THEN "exited" ELSE "finally"
          /\ exitCode' = 0
          /\ buffer' = <<>>
          /\ idle' = 0
  /\ UNCHANGED <<connVars, yielded, stdout, sent, peerVars, binderVars, address,
                 discovery, faults>>

\* alternative-gps-connector.py: signal_handler prints SIGNAL and calls
\* sys.exit(0); the release is left to main's finally clause.
\*   inTry: the signal arrives during the subprocess.run of a release, inside
\*          try / except: pass, which swallows SystemExit
\*   done:  the rfcomm command that was interrupted had taken effect
AltSignal(inTry, done) ==
  /\ pc \in {"alt_connect", "alt_release", "alt_bind", "alt_stream_enter",
            "alt_streaming", "alt_cleanup"}
  /\ signals < MaxSignals
  /\ signals' = signals + 1
  /\ inTry => (pc = "alt_release" \/ (pc = "alt_cleanup" /\ rfcomm_device /= -1))
  /\ done => (inTry \/ (pc = "alt_bind" /\ rfcomm_device \notin devices /\ ~held))
  /\ LET r == IF done THEN "run" ELSE "killed"
     IN IF inTry
        THEN /\ releaseLog' =
                  Append(releaseLog, release_outcome(r, rfcomm_device, devices, held))
             /\ devices' = release_devices(r, rfcomm_device, devices)
             /\ held' = release_held(r, held)
             /\ binds' = binds
             /\ buffer' = buffer
             /\ IF pc = "alt_release"
                THEN /\ stderr' = stderr \o <<"TRYING_CHANNEL", "SIGNAL">>
                     /\ pc' = "alt_bind"
                     /\ UNCHANGED <<exitCode, running>>
                ELSE /\ stderr' = Append(stderr, "SIGNAL")
                     /\ running' = FALSE
                     /\ exitCode' = exit_status(exitCode)
                     /\ pc' = "alt_exited"
        ELSE /\ held' = (held \/ done)
             /\ binds' = IF done THEN binds + 1 ELSE binds
             /\ devices' = IF done THEN devices \cup {rfcomm_device} ELSE devices
             /\ releaseLog' = releaseLog
             /\ stderr' = IF pc = "alt_streaming"
                          THEN stderr \o <<"SIGNAL", "DISCONNECTED">>
                          ELSE Append(stderr, "SIGNAL")
             /\ buffer' = <<>>
             /\ running' = IF pc = "alt_cleanup" THEN FALSE ELSE running
             /\ exitCode' = 0
             /\ pc' = IF pc = "alt_cleanup" THEN "alt_exited" ELSE "alt_cleanup"
  /\ UNCHANGED <<sock, openHandles, connVars, idle, yielded, stdout, sent, peerVars,
                 rfcomm_device, address, discovery, faults>>

SignalNext ==
  \/ RunNext
  \/ \E swallowed \in BOOLEAN : Signal(swallowed)
  \/ \E inTry \in BOOLEAN, done \in BOOLEAN : AltSignal(inTry, done)

\* runs with signals: a well-formed address, discovery without a match, a peer
\* that listens on the default channel or not at all, no slot occupied
SignalInit ==
  /\ RunInit
  /\ address = ValidAddress
  /\ discovery = NoDiscovery
  /\ wire = TelemetryLine \o <<NL>>
  /\ listening \in {{}, {DefaultChannel}}
  /\ devices = {}

SpecSignals == SignalInit /\ [][SignalNext]_vars

(***************************************************************************)
(* Properties of cancellation (checked under SpecSignals).                 *)
(***************************************************************************)
Exited == pc \in {"exited", "alt_exited"}

\* C11: when a signal was delivered at any point of the run, the process ends
\* with its transport closed and with no device slot bound by it.
C11_SignalClosesAndReleases ==
  (Exited /\ signals > 0 /\ faults = 0) =>
    (sock = "None" /\ openHandles = 0 /\ ~held)

(***************************************************************************)
(* Properties of whole runs of both programs (checked under SpecRuns).     *)
(***************************************************************************)
Logged(tag) == tag \in Range(stderr)
Count(log, tag) == Cardinality({i \in 1..Len(log) : log[i] = tag})

\* every rfcomm release issued so far ran to its end
ReleaseFacilityWorked == \A i \in 1..Len(releaseLog) : releaseLog[i] \notin ReleaseFaults

C13_ExitStatus ==
  Exited =>
    /\ exitCode = 0 =>
         (valid_address(address) /\ Logged("CONNECTED") /\ ~Logged("FATAL_ERROR"))
    /\ (~valid_address(address) \/ Logged("CONNECTION_FAILED") \/ Logged("FATAL_ERROR"))
         => exitCode /= 0

\* C14: with an address that has a character outside 0-9A-Fa-f: no connection
\* is attempted, no socket is opened, no slot is chosen, bound or released, and
\* the exit status is not zero.
C14_InvalidAddressRejected ==
  ~valid_address(address) =>
    /\ tried = <<>>
    /\ sock = "None"
    /\ openHandles = 0
    /\ rfcomm_device = -1
    /\ binds = 0
    /\ releaseLog = <<>>
    /\ Exited => exitCode /= 0

(***************************************************************************)
(* Channel resolution (checked under Spec).                                *)
(***************************************************************************)
KeywordMatch(services) ==
  \E i \in 1..Len(services) :
    /\ services[i].name /= ""
    /\ services[i].port /= 0
    /\ has_keyword(name_lower(services[i].name))

DiscoveryFailed(d) == d.raises \/ d.services = <<>> \/ ~KeywordMatch(d.services)

\* the step of main that resolves the channel
C15_ResolutionStep ==
  (pc = "main" /\ pc' = "attempt") =>
    /\ mainChannel' >= 1
    /\ channel' = mainChannel'
    /\ DiscoveryFailed(discovery) => mainChannel' = DefaultChannel
    /\ ~DiscoveryFailed(discovery) =>
         \E i \in 1..Len(discovery.services) : discovery.services[i].port = mainChannel'

\* the lists of the diagnostic scripts for the answer of the discovery
C15_ScriptLists ==
  pc = "main" =>
    /\ ports_to_test(discovery) /= <<>>
    /\ channels_to_test(discovery) /= <<>>
    /\ \A i \in 1..Len(ports_to_test(discovery)) : ports_to_test(discovery)[i] >= 1
    /\ \A i \in 1..Len(channels_to_test(discovery)) : channels_to_test(discovery)[i] >= 1
    /\ (discovery.raises \/ discovery.services = <<>>) =>
         (ports_to_test(discovery) = default_channels
            /\ channels_to_test(discovery) = default_channels)

\* C15: channel resolution always yields a channel to try: when service
\* discovery raises, returns no service or returns no service with a keyword
\* in its name, the result is the default channel (the default list of the
\* diagnostic scripts), never an error and never nothing.
C15_ResolutionNeverEmpty ==
  /\ []C15_ScriptLists
  /\ [][C15_ResolutionStep]_vars

\* the discovery raised and the connector goes on with the default channel
C15_Witness ==
  /\ pc = "attempt"
  /\ attemptsMade = 0
  /\ portIdx = 0
  /\ Logged("SERVICE_SCAN_ERROR")
  /\ mainChannel = DefaultChannel

(***************************************************************************)
(* The release of the device slot.                                         *)
(***************************************************************************)
\* a step of cleanup, or of the release inside connect, goes on as if the
\* release had worked, whatever the release did
C16_ReleaseStep ==
  /\ (pc = "alt_cleanup" /\ pc' /= pc) =>
       (pc' = "alt_exited" /\ exitCode' = exit_status(exitCode))
  /\ (pc = "alt_release" /\ pc' /= pc) => (pc' = "alt_bind" /\ exitCode' = exitCode)

\* cleanup and the release of connect can run in every state they are met in
C16_ReleaseEnabled ==
  /\ pc = "alt_cleanup" => ENABLED AltCleanup("run")
  /\ pc = "alt_release" => ENABLED AltRelease("run")

\* C16: release is safe in every state: on a slot that was never bound, on a
\* slot already released, repeatedly, and when the release command times out or
\* cannot be started, nothing is raised to the caller.
C16_ReleaseNeverRaises ==
  /\ []C16_ReleaseEnabled
  /\ [][C16_ReleaseStep]_vars

\* the slot was released twice (never bound, then bound), the last release timed
\* out or could not be started, and the process ended normally
C16_Witness ==
  /\ pc = "alt_exited"
  /\ exitCode = 0
  /\ Len(releaseLog) >= 2
  /\ releaseLog[1] = "unbound"
  /\ releaseLog[Len(releaseLog)] \in ReleaseFaults

\* C17: every successful bind is matched by exactly one release of the slot on
\* every exit path, cancellation included: no release is issued twice for one
\* bind and no slot bound by the process is left bound when it exits.
C17_BindMatchedByOneRelease ==
  /\ Count(releaseLog, "released") + (IF held THEN 1 ELSE 0) = binds
  /\ (pc = "alt_exited" /\ faults = 0) => ~held

(***************************************************************************)
(* The supervisor states of gps-connector-improved.py.                     *)
(***************************************************************************)
ImprovedPcs ==
  {"start", "main", "attempt", "connecting", "recover", "backoff", "sweep_start",
   "sweep", "sweep_sleep", "stream_enter", "streaming", "finally", "exited"}

Phase(p) ==
  CASE p = "start" -> "Idle"
    [] p = "main" -> "Resolving"
    [] p \in {"attempt", "connecting", "recover", "backoff", "sweep_start", "sweep",
              "sweep_sleep"} -> "Connecting"
    [] p \in {"stream_enter", "streaming"} -> "Streaming"
    [] OTHER -> "Closed"

\* the edges of the state machine; Closed is entered from any state
PhaseEdges ==
  {<<"Idle", "Resolving">>, <<"Resolving", "Connecting">>, <<"Connecting", "Streaming">>,
   <<"Streaming", "Degraded">>, <<"Degraded", "Connecting">>}
    \cup {<<ph, "Closed">> : ph \in {"Idle", "Resolving", "Connecting", "Streaming", "Degraded"}}

C18_Step ==
  (pc \in ImprovedPcs) =>
    /\ Phase(pc') /= Phase(pc) => <<Phase(pc), Phase(pc')>> \in PhaseEdges
    /\ stdout' /= stdout => (Phase(pc) = "Streaming" /\ pc = "streaming")
    /\ Phase(pc) = "Closed" =>
         (Phase(pc') = "Closed" /\ tried' = tried /\ sent' = sent /\ stdout' = stdout)

\* C18: the run only moves along Idle -> Resolving -> Connecting -> Streaming ->
\* {Degraded -> Connecting | Closed} (Closed being entered from any state);
\* records are printed only while Streaming; nothing is attempted, read or
\* printed once Closed.
C18_SupervisorEdges == [][C18_Step]_vars

\* a run went through every state, printed a record and is closed
C18_Witness ==
  /\ pc = "exited"
  /\ Len(stdout) = 1
  /\ Len(tried) >= 2
  /\ portIdx >= 1

(***************************************************************************)
(* Handles and waits of connect_with_retry (checked under Spec).           *)
(***************************************************************************)
\* C19: at most one socket is open at any point: each attempt closes the socket
\* of the previous one before it opens its own, across retries and across the
\* ports of the sweep, and streaming has exactly the connected one.
C19_OneLiveHandle ==
  /\ openHandles \in {0, 1}
  /\ (sock = "None") <=> (openHandles = 0)
  /\ pc \in {"stream_enter", "streaming"} => (sock = "connected" /\ openHandles = 1)

\* an attempt on a port of the sweep, after refused attempts, holds one socket
C19_Witness ==
  /\ pc = "connecting"
  /\ portIdx >= 2
  /\ Len(tried) >= 5
  /\ lastErr = "refused"
  /\ openHandles = 1

C21_HostDownSkipsCandidates ==
  (pc = "connecting" /\ lastErr = "hostdown" /\ Len(tried) >= 2) =>
    tried[Len(tried)] = tried[Len(tried) - 1]

(***************************************************************************)
(* Properties of the ways a run ends (checked under SpecRuns).             *)
(***************************************************************************)
\* the tags that tell why a run ended
ReasonTags ==
  {"ERROR", "CONNECTION_FAILED", "FATAL_ERROR", "DATA_TIMEOUT", "CONNECTION_LOST",
   "BT_ERROR", "IO_ERROR"}

\* C22: a run that ends in a failure has written a reason tag on stderr before
\* the process terminates: from the moment the failure is decided (the exit
\* status is set, or the final cleanup is reached) a reason tag is on stderr.
C22_FailureHasReasonTag ==
  (exitCode > 0 \/ pc \in {"finally", "alt_cleanup", "exited", "alt_exited"}) =>
    \E tag \in ReasonTags : Logged(tag)

\* the connector has given up after the last port of the sweep
C22_Witness ==
  /\ pc = "exited"
  /\ exitCode = 1
  /\ Logged("CONNECTION_FAILED")
  /\ Len(tried) > DefaultRetries

(***************************************************************************)
(* Properties of the streaming loops (checked under SpecStream).           *)
(***************************************************************************)
\* C23: a line that is not valid JSON is never printed on stdout; each such
\* line gives one PARSE_ERROR on stderr and nothing else.
C23_MalformedOnlyDiagnosed ==
  /\ \A n \in 1..Len(yielded) : IsMalformed(yielded[n]) => ~Emitted(n)
  /\ Count(stderr, "PARSE_ERROR") =
       Cardinality({n \in 1..Len(yielded) : IsMalformed(yielded[n])})

\* a malformed line was handled and the loop goes on
C23_Witness ==
  /\ InStreamLoop
  /\ \E n \in 1..Len(yielded) : IsMalformed(yielded[n])
  /\ Logged("PARSE_ERROR")

\* C24: the staleness clock runs since the last valid telemetry record: a step
\* of the streaming loop that prints no telemetry record (it received a
\* malformed line, a non-telemetry object or a partial line) does not set the
\* clock back.
C24_StalenessCountsValidRecords ==
  [][(/\ pc = "streaming"
      /\ pc' = "streaming"
      /\ \A k \in (Len(stdout) + 1)..Len(stdout') : "L" \notin stdout'[k].keys)
       => idle' >= idle]_vars

(***************************************************************************)
(* stream_gps_data against a peer that never sends a telemetry record.     *)
(* The peer sends its wire and may then go on sending keep-alive lines     *)
(* for ever; sent and yielded count within its current transmission.       *)
(***************************************************************************)
\* the wires without a telemetry line
SilentWires ==
  {w \in Wires : \A i \in 1..Len(CompleteLines(w)) : ~IsTelemetry(CompleteLines(w)[i])}

\* a blank line: bytes that carry no record
KeepAlive == BlankLine \o <<NL>>

\* the peer sends its keep-alive line once more
PeerKeepAlive ==
  /\ pc = "streaming"
  /\ wire = KeepAlive
  /\ sent = Len(wire)
  /\ sent' = 0
  /\ yielded' = <<>>
  /\ UNCHANGED <<pc, sock, openHandles, connVars, buffer, idle, stdout, stderr,
                 exitCode, restVars, faults>>

LiveInit ==
  /\ StreamInit
  /\ pc = "stream_enter"
  /\ wire \in SilentWires

LiveNext == StreamNext \/ PeerKeepAlive

\* the process is never suspended for ever: a step of the program that stays
\* possible is taken
SpecLive == LiveInit /\ [][LiveNext]_vars /\ WF_vars(StreamNext)

\* C25: against a peer that connects and never sends a valid record the run
\* does not stay in the streaming loop for ever: it reaches its end.
C25_SilentPeerReachesClosed == <>(pc = "exited")

(***************************************************************************)
(* Properties of the recovery actions (checked under Spec).                *)
(***************************************************************************)
\* the reset that followed a "Host is down" error failed while attempts were
\* left: CONNECT_ERROR, RESET_ERROR, RETRY_WAIT in a row on stderr (after a
\* bad descriptor SOCKET_CLOSED comes between the first two)
HostDownResetFailed ==
  \E i \in 1..(Len(stderr) - 2) :
    /\ stderr[i] = "CONNECT_ERROR"
    /\ stderr[i + 1] = "RESET_ERROR"
    /\ stderr[i + 2] = "RETRY_WAIT"

\* C26: when the link-level reset that follows a "Host is down" error fails,
\* connect_with_retry gives up early: it does not go on to use all of its
\* attempts.
C26_FailedResetGivesUpEarly ==
  (portIdx = 0 /\ HostDownResetFailed) => attemptsMade < max_retries

HangInit ==
  /\ pc = "main"
  /\ sock = "None"
  /\ openHandles = 0
  /\ mainChannel = 0
  /\ portIdx = 0
  /\ channel = 0
  /\ attempt = 0
  /\ max_retries = 0
  /\ lastErr = "none"
  /\ tried = <<>>
  /\ recovery = {}
  /\ waits = <<>>
  /\ ret = "none"
  /\ attemptsMade = 0
  /\ buffer = <<>>
  /\ idle = 0
  /\ yielded = <<>>
  /\ stdout = <<>>
  /\ stderr = <<>>
  /\ exitCode = -1
  /\ wire = TelemetryLine \o <<NL>>
  /\ sent = 0
  /\ listening \in {{}, {DefaultChannel}}
  /\ faults = 0
  /\ running = FALSE
  /\ address = ValidAddress
  /\ discovery \in Discoveries \cup {HangingDiscovery}
  /\ signals = 0
  /\ rfcomm_device = -1
  /\ devices = {}
  /\ held = FALSE
  /\ binds = 0
  /\ releaseLog = <<>>

\* the process runs whenever it can: a call that has returned is followed by
\* the next statement
SpecHang == HangInit /\ [][Next]_vars /\ WF_vars(Next)

\* C28: channel resolution ends whatever service discovery does, a discovery
\* that never returns included: the run reaches its first connection attempt.
C28_ResolveReturns == <>(pc = "attempt")

(***************************************************************************)
(* Properties of channel resolution (checked under Spec).                  *)
(***************************************************************************)
\* the services with a name, a usable port and a keyword in the name
Matching(services) ==
  {i \in 1..Len(services) :
     /\ services[i].name /= ""
     /\ services[i].port /= 0
     /\ has_keyword(name_lower(services[i].name))}

\* the port of the first of them in discovery order
FirstMatchPort(services) ==
  services[CHOOSE i \in Matching(services) : \A j \in Matching(services) : i <= j].port

\* C29: when the discovery answers services with a keyword in their name and a
\* usable port, the first channel tried is the port of the first of them in
\* discovery order, in the connector and in the connection test script.
C29_FirstKeywordMatchFirst ==
  /\ (pc = "main" /\ ~discovery.raises /\ Matching(discovery.services) /= {}) =>
       /\ find_best_channel(discovery.services, FALSE, discovery.raises)
            = FirstMatchPort(discovery.services)
       /\ ports_to_test(discovery)[1] = FirstMatchPort(discovery.services)
  /\ (portIdx = 0 /\ Len(tried) >= 1) => tried[1] = mainChannel

\* the well-known higher-numbered channel of common_ports
HighChannel == 17

\* C30: in the fallback order the low-numbered default channels come first:
\* the higher-numbered channel is attempted only after each of the channels
\* 1..5 has been attempted.
C30_HighChannelLast ==
  \A k \in 1..Len(tried) :
    (tried[k] = HighChannel /\ mainChannel /= HighChannel) =>
      \A c \in Range(default_channels) : \E j \in 1..(k - 1) : tried[j] = c

(***************************************************************************)
(* Properties of the candidate channels (checked under Spec).              *)
(***************************************************************************)
NoDuplicates(seq) == \A i \in 1..Len(seq) : \A j \in (i + 1)..Len(seq) : seq[i] /= seq[j]

\* C31: no channel is a candidate twice.  In the connector a channel is
\* attempted again only as a retry of the resolved channel inside the first
\* call, never in the sweep; the channel lists of the diagnostic scripts hold
\* no channel twice.
C31_CandidatesDeduplicated ==
  /\ \A i \in 1..Len(tried) : \A j \in (i + 1)..Len(tried) :
       tried[i] = tried[j] => (tried[i] = mainChannel /\ j <= DefaultRetries)
  /\ pc = "main" =>
       /\ NoDuplicates(channels_to_test(discovery))
       /\ NoDuplicates(test_insecure_channels(discovery))

(***************************************************************************)
(* Properties of the device binder (checked under SpecRuns).               *)
(***************************************************************************)
\* connect has chosen its slot and has not yet touched the devices
SlotJustChosen == pc = "alt_release" /\ releaseLog = <<>>

\* C32: the slot chosen is the lowest of 0..9 whose device path does not
\* exist; a slot whose device path exists is never chosen.
C32_FirstFreeSlot ==
  SlotJustChosen =>
    /\ rfcomm_device \in 0..(NumSlots - 1)
    /\ rfcomm_device \notin devices
    /\ \A j \in 0..(rfcomm_device - 1) : j \in devices

\* the run is one of the alternative connector, past the head of connect
InBinder == Logged("CONNECTING")
ChannelFailures ==
  Count(stderr, "CHANNEL_FAILED") + Count(stderr, "CHANNEL_ERROR")
    + Count(stderr, "CHANNEL_TIMEOUT")

\* C33: connect reports success only when the bind returned success and the
\* device path exists; the channels are tried in the order 1, 2, 3, 4, 5, one
\* failure moving on to the next; the first success ends the search; five
\* failures give CONNECTION_FAILED.
C33_BindContract ==
  InBinder =>
    /\ channel \in Range(alt_channels)
    /\ pc = "alt_release" => Count(stderr, "TRYING_CHANNEL") = channel - 1
    /\ pc /= "alt_release" => Count(stderr, "TRYING_CHANNEL") = channel
    /\ pc \in {"alt_release", "alt_bind"} =>
         (ChannelFailures = channel - 1 /\ ~running /\ ~Logged("CONNECTED"))
    /\ pc = "alt_stream_enter" =>
         (held /\ rfcomm_device \in devices /\ binds >= 1 /\ running)
    /\ Logged("CONNECTED") => ChannelFailures = channel - 1
    /\ Logged("CONNECTION_FAILED") <=>
         (ChannelFailures = Len(alt_channels) /\ pc \in {"alt_cleanup", "alt_exited"})
    /\ Logged("CONNECTION_FAILED") => (~Logged("CONNECTED") /\ exitCode = 1)

\* the bind of channel 1 failed and the bind of channel 2 succeeded: connect
\* has returned True
C33_Witness ==
  /\ InBinder
  /\ pc = "alt_stream_enter"
  /\ channel = 2
  /\ Logged("CHANNEL_ERROR")
  /\ Logged("CONNECTED")
  /\ rfcomm_device \in devices

(***************************************************************************)
(* test-channel-12.py: connect on channel 12, send the client handshake,   *)
(* read GPS data, close.  The script prints on its console: its messages   *)
(* are kept in stderr and the GPS blocks it prints in stdout.              *)
(***************************************************************************)
TestChannel == 12
\* "gps_count < 5"
GpsWanted == 5

RECURSIVE t12_lines(_, _)
\* "for line in decoded.strip().split('\n')": a GPS block for an object with
\* latitude and longitude, "Raw" for a line json.loads rejects; on a JSON value
\* that is no object "'latitude' in gps_data" raises TypeError (st.raised)
t12_lines(text, st) ==
  LET last == NL \notin Range(text)
      line == IF last THEN text ELSE split_line(text)
      parsed == json_loads(strip(line))
      after ==
        IF line = <<>> THEN st
        ELSE IF parsed.kind = "invalid" THEN [st EXCEPT !.stderr = Append(@, "RAW")]
        ELSE IF parsed.kind = "object"
             THEN IF "L" \in parsed.keys
                  THEN [st EXCEPT !.stdout =
                          print_stdout(@, alt_emit_record(parsed, Len(@) + 1))]
                  ELSE st
             ELSE [st EXCEPT !.raised = TRUE]
  IN IF last \/ after.raised THEN after ELSE t12_lines(split_rest(text), after)

\* socket, timeout and connect; a BluetoothError goes to the handler at the
\* end of the script
T12Connect(ok) ==
  /\ pc = "t12_start"
  /\ openHandles' = openHandles + 1
  /\ tried' = Append(tried, TestChannel)
  /\ channel' = TestChannel
  /\ IF ok
     THEN /\ TestChannel \in listening
          /\ sock' = "connected"
          /\ stderr' = Append(stderr, "CONNECTED")
          /\ pc' = "t12_handshake"
          /\ UNCHANGED <<lastErr, faults>>
     ELSE /\ \/ TestChannel \notin listening /\ faults' = faults
             \/ faults < MaxFaults /\ faults' = faults + 1
          /\ sock' = "created"
          /\ lastErr' = "connect"
          /\ stderr' = Append(stderr, "BLUETOOTH_ERROR")
          /\ pc' = "t12_finally"
  /\ UNCHANGED <<mainChannel, portIdx, attempt, max_retries, recovery, waits, ret,
                 attemptsMade, streamVars, exitCode, restVars>>

\* sock.send(handshake): when it raises, the same handler ends the script
T12Handshake(ok) ==
  /\ pc = "t12_handshake"
  /\ IF ok
     THEN /\ stderr' = Append(stderr, "HANDSHAKE_SENT")
          /\ pc' = "t12_reading"
          /\ UNCHANGED <<lastErr, faults>>
     ELSE /\ faults < MaxFaults
          /\ faults' = faults + 1
          /\ lastErr' = "send"
          /\ stderr' = Append(stderr, "BLUETOOTH_ERROR")
          /\ pc' = "t12_finally"
  /\ UNCHANGED <<sock, openHandles, mainChannel, portIdx, channel, attempt,
                 max_retries, tried, recovery, waits, ret, attemptsMade, streamVars,
                 exitCode, restVars>>

\* one iteration in which recv returns n bytes; the chunk is parsed on its own
T12Recv(n) ==
  /\ pc = "t12_reading"
  /\ n \in 1..Min(RecvSize, Len(wire) - sent)
  /\ \E st \in {t12_lines(strip(decode_ignore(SubSeq(wire, sent + 1, sent + n))),
                          [stdout |-> stdout, stderr |-> stderr, raised |-> FALSE])} :
       /\ stdout' = st.stdout
       /\ stderr' = IF st.raised THEN Append(st.stderr, "ERROR_RECEIVING") ELSE st.stderr
       /\ pc' = IF st.raised \/ Len(st.stdout) >= GpsWanted THEN "t12_done"
                ELSE "t12_reading"
  /\ sent' = sent + n
  /\ UNCHANGED <<sock, openHandles, connVars, buffer, idle, yielded, exitCode,
                 restVars, faults>>

\* recv times out after 30 seconds, or the 30 seconds of the loop are over
T12Timeout ==
  /\ pc = "t12_reading"
  /\ pc' = "t12_done"
  /\ UNCHANGED <<sock, openHandles, connVars, streamVars, stderr, exitCode, restVars,
                 faults>>

\* recv raises something else: "Error receiving", break
T12RecvError ==
  /\ pc = "t12_reading"
  /\ faults < MaxFaults
  /\ faults' = faults + 1
  /\ stderr' = Append(stderr, "ERROR_RECEIVING")
  /\ pc' = "t12_done"
  /\ UNCHANGED <<sock, openHandles, connVars, streamVars, exitCode, restVars>>

\* after the loop: the summary, whatever was received
T12Done ==
  /\ pc = "t12_done"
  /\ stderr' = Append(stderr, "SUCCESS")
  /\ pc' = "t12_finally"
  /\ UNCHANGED <<sock, openHandles, connVars, streamVars, exitCode, restVars, faults>>

\* finally: sock.close()
T12Finally ==
  /\ pc = "t12_finally"
  /\ openHandles' = cleanup_handles(sock, openHandles)
  /\ stderr' = cleanup_log(sock, stderr)
  /\ sock' = "None"
  /\ exitCode' = exit_status(exitCode)
  /\ pc' = "t12_exited"
  /\ UNCHANGED <<connVars, streamVars, restVars, faults>>

T12Next ==
  \/ \E ok \in BOOLEAN : T12Connect(ok)
  \/ \E ok \in BOOLEAN : T12Handshake(ok)
  \/ \E n \in 1..Len(wire) : T12Recv(n)
  \/ T12Timeout
  \/ T12RecvError
  \/ T12Done
  \/ T12Finally

T12Init ==
  /\ pc = "t12_start"
  /\ sock = "None"
  /\ openHandles = 0
  /\ mainChannel = 0
  /\ portIdx = 0
  /\ channel = 0
  /\ attempt = 0
  /\ max_retries = 0
  /\ lastErr = "none"
  /\ tried = <<>>
  /\ recovery = {}
  /\ waits = <<>>
  /\ ret = "none"
  /\ attemptsMade = 0
  /\ buffer = <<>>
  /\ idle = 0
  /\ yielded = <<>>
  /\ stdout = <<>>
  /\ stderr = <<>>
  /\ exitCode = -1
  /\ wire \in Wires
  /\ sent = 0
  /\ listening \in {{}, {TestChannel}}
  /\ faults = 0
  /\ running = FALSE
  /\ address = ValidAddress
  /\ discovery = NoDiscovery
  /\ signals = 0
  /\ rfcomm_device = -1
  /\ devices = {}
  /\ held = FALSE
  /\ binds = 0
  /\ releaseLog = <<>>

SpecT12 == T12Init /\ [][T12Next]_vars

\* C34: a failure to send the client handshake is not fatal: whatever the send
\* does, the step after the connect leads to the reading of telemetry on the
\* open connection.
C34_HandshakeFailureNotFatal ==
  [][(pc = "t12_handshake" /\ pc' /= pc) =>
       (pc' = "t12_reading" /\ sock' = "connected" /\ openHandles' = 1)]_vars

(***************************************************************************)
(* Properties of termination by signal (checked under SpecSignals).        *)
(***************************************************************************)
\* C35: a termination signal always ends the process: once the handler has
\* run, the main flow is in its final cleanup or has exited; it starts no
\* further connection attempt, bind or read.
C35_SignalAlwaysEnds ==
  signals > 0 => pc \in {"finally", "exited", "alt_cleanup", "alt_exited"}

(***************************************************************************)
(* Properties of the device binder, continued (checked under SpecRuns).    *)
(***************************************************************************)
\* C36: the binder never releases a slot it does not own: no release it issues
\* removes the binding of another process.
C36_ReleasesOnlyOwnSlot ==
  \A i \in 1..Len(releaseLog) : releaseLog[i] /= "stolen"

(***************************************************************************)
(* Properties of the streaming loops, continued (checked under SpecStream). *)
(***************************************************************************)
StreamEnded == pc \in {"finally", "exited", "alt_cleanup", "alt_exited"}

\* C37: bytes received after the last newline are never printed: every record
\* comes from a newline-terminated line, the records and parse errors together
\* are no more than the terminated lines received, and when the stream ends the
\* partial line is dropped.
C37_PartialLineNeverEmitted ==
  /\ \A k \in 1..Len(stdout) : stdout[k].src \in 1..Len(CompleteLines(Received))
  /\ Len(stdout) + Count(stderr, "PARSE_ERROR") <= Len(CompleteLines(Received))
  /\ StreamEnded => buffer = <<>>

\* the stream ended after a line and an unterminated telemetry object were
\* received: one record was printed
C37_Witness ==
  /\ StreamEnded
  /\ wire = TelemetryLine \o <<NL>> \o TelemetryLine
  /\ sent = Len(wire)
  /\ Len(stdout) = 1
  /\ ~Logged("PARSE_ERROR")

\* C38: a line that is empty or only whitespace once trimmed gives no output at
\* all: no record comes from it, the diagnostics on stderr are those of the
\* other lines, and the lines after it are handled.
C38_BlankLineSilent ==
  /\ \A n \in 1..Len(yielded) : IsBlank(yielded[n]) => ~Emitted(n)
  /\ Count(stderr, "PARSE_ERROR") <=
       Cardinality({n \in 1..Len(yielded) : ~IsBlank(yielded[n])})
  /\ \A n \in 1..Len(yielded) :
       (IsBlank(yielded[n]) /\ n = Len(yielded) /\ InStreamLoop) =>
         NL \notin Range(buffer)
  /\ \A n \in 1..Len(yielded) : \A m \in (n + 1)..Len(yielded) :
       (IsBlank(yielded[n]) /\ IsTelemetry(yielded[m])) => Emitted(m)

\* a telemetry line was printed after a blank line, with nothing on stderr
C38_Witness ==
  /\ InStreamLoop
  /\ Len(yielded) = 2
  /\ IsBlank(yielded[1])
  /\ IsTelemetry(yielded[2])
  /\ Emitted(2)
  /\ Len(stdout) = 1
  /\ ~Logged("PARSE_ERROR")

(***************************************************************************)
(* The connection phase of main: the first call of connect_with_retry and  *)
(* the sweep over common_ports.                                            *)
(***************************************************************************)
InPhase ==
  pc \in {"attempt", "connecting", "recover", "backoff", "sweep_start", "sweep",
          "sweep_sleep"}

\* the ports of common_ports other than the resolved channel, in order
OtherPorts == SelectSeq(common_ports, LAMBDA p : p /= mainChannel)

IsPrefix(s, t) == Len(s) <= Len(t) /\ \A i \in 1..Len(s) : s[i] = t[i]

\* the steps of the connection phase
PhaseNext ==
  \/ AttemptOpen
  \/ ConnectOK
  \/ \E e \in FaultClasses \cup {"refused"} : ConnectFail(e)
  \/ \E bound \in BOOLEAN, resetOK \in BOOLEAN : Recover(bound, resetOK)
  \/ Backoff
  \/ ConnectUnexpected
  \/ SweepStart
  \/ SweepPort
  \/ SweepSleep

\* weight of one port of the sweep in the progress measure
PortWeight == 4 * DefaultRetries + 8

\* progress measure of the connection phase
PhaseRank ==
  (Len(common_ports) + 1 - portIdx) * PortWeight
    + (CASE InConnect -> ConnectRank + 1
         [] pc = "sweep" -> PortWeight - 1
         [] OTHER -> 0)

\* the transport opens of the run so far: at most DefaultRetries on the resolved
\* channel, then the other ports of common_ports in order, one open each, none
\* after a success; CONNECTION_FAILED and exit status 1 when all of them failed
C39_OpensBounded ==
  /\ Len(tried) <= DefaultRetries + Len(OtherPorts)
  /\ portIdx = 0 =>
       /\ Len(tried) <= DefaultRetries
       /\ \A i \in 1..Len(tried) : tried[i] = mainChannel
  /\ portIdx > 0 =>
       /\ Len(tried) >= DefaultRetries
       /\ \A i \in 1..DefaultRetries : tried[i] = mainChannel
       /\ IsPrefix(SubSeq(tried, DefaultRetries + 1, Len(tried)), OtherPorts)
  /\ Count(stderr, "CONNECTED") <= 1
  /\ \A i \in 1..Len(stderr) :
       stderr[i] = "CONNECTED" =>
         \A j \in (i + 1)..Len(stderr) : stderr[j] /= "CONNECT_ATTEMPT"
  /\ Logged("CONNECTION_FAILED") =>
       /\ ~Logged("CONNECTED")
       /\ exitCode = 1
       /\ Len(tried) = DefaultRetries + Len(OtherPorts)
  /\ (pc = "exited" /\ ~Logged("CONNECTED")) =>
       (Logged("CONNECTION_FAILED") /\ exitCode = 1)
  /\ InPhase => ENABLED PhaseNext

\* every step of the connection phase leaves it or lowers its progress measure
C39_PhaseProgresses ==
  (InPhase /\ vars' /= vars) => (~InPhase' \/ PhaseRank' < PhaseRank)

\* C39: the connection phase of one run always terminates with a bounded number
\* of transport opens: at most 3 attempts on the resolved channel, then at most
\* one attempt on each other port of [17, 1, 2, 3, 4, 5], stopping at the first
\* success; if every attempt fails the run exits with CONNECTION_FAILED.
C39_ConnectionPhaseBounded ==
  /\ []C39_OpensBounded
  /\ [][C39_PhaseProgresses]_vars

\* every attempt of a run on resolved channel 1 failed: three opens on channel 1,
\* one on each other port, then CONNECTION_FAILED
C39_Witness ==
  /\ tried = <<1, 1, 1, 17, 2, 3, 4, 5>>
  /\ Logged("CONNECTION_FAILED")
  /\ exitCode = 1

\* the handler of the final attempt of a call of connect_with_retry has run: the
\* call is about to return False, or has just returned it
FinalAttemptHandled ==
  \/ pc = "backoff" /\ attempt = max_retries - 1
  \/ pc \in {"sweep_start", "sweep_sleep"} /\ ret = "False"

\* C40: recovery actions and backoff waits happen only between attempts: after
\* the final attempt of connect_with_retry (index max_retries - 1, the single
\* attempt of a max_retries = 1 call included) there is no backoff wait, no
\* release of existing bindings, no link reset and no channel re-resolution.
C40_NoRecoveryAfterFinalAttempt ==
  (FinalAttemptHandled /\ lastErr /= "unexpected") =>
    /\ recovery \cap {"release", "reset", "rechannel"} = {}
    /\ waits = <<>>

====
